---- MODULE Spec2Model ----
(***************************************************************************)
(* Model of contrib/PythonV2/cntk/context.py: the process-wide registry    *)
(* _CONTEXT, get_context / get_new_context, the construction of            *)
(* AbstractContext / LocalExecutionContext, the precision property, the    *)
(* scope methods __enter__ / __exit__ and LocalExecutionContext.eval with  *)
(* the calls it makes on the op (Forward, Backward).                       *)
(*                                                                         *)
(* Every public call is one action.  The variable `call` holds the record  *)
(* of the most recent call: its arguments, what it returned or raised and, *)
(* for eval, the sequence of calls it made on the engine.                  *)
(***************************************************************************)
EXTENDS Integers, Sequences, FiniteSets

VARIABLES
    ctxs,      \* the context objects constructed so far; an object's identity is its index
    registry,  \* _CONTEXT: handle -> context object
    lastGot,   \* per handle: the object the latest get_context returned since the
               \* latest __exit__ of that name (0: none)
    call       \* the most recent call

vars == <<ctxs, registry, lastGot, call>>

(***************************************************************************)
(* Bounds and input domains                                                *)
(***************************************************************************)
MaxCtx == 2        \* context objects constructed in one run

Handles == {"default", "a"}                \* the handles a caller names
\* what get_new_context can draw, str(np.random.random())[2:]: strings of
\* digits, never 'default'; more of them than the registry holds while a
\* context can still be built, so that a draw that is not registered exists
RandomHandles == {"25", "5", "75"}
AllHandles == Handles \cup RandomHandles
NoHandle == "<None>"                       \* handle=None
DeviceIds == {-1, 0}                       \* CPU, GPU 0
Precisions == {"float", "double", "half"}  \* "half" is not supported
InVars == {"x", "y"}                       \* input variables of the ops
Ops == {"constant", "split"}                \* the Functions handed to eval

(***************************************************************************)
(* Python values                                                           *)
(***************************************************************************)
EmptyDict == [k \in {} |-> 0]
None == [isNone |-> TRUE, map |-> EmptyDict]
Dict(m) == [isNone |-> FALSE, map |-> m]
Keys(d) == DOMAIN d.map
\* bool(d) of a dict or None
Truthy(d) == ~d.isNone /\ Keys(d) # {}

RECURSIVE Product(_)
Product(s) == IF s = <<>> THEN 1 ELSE Head(s) * Product(Tail(s))

\* tuple(reversed(shape))
Reversed(s) == [i \in 1..Len(s) |-> s[Len(s) + 1 - i]]

\* a NumPy array: shape, dtype and the flat data
NDArray(shape, dtype, data) == [shape |-> shape, dtype |-> dtype, data |-> data]
\* np_data.reshape(tuple(reversed(np_data.shape)))
ReshapeReversed(a) == [a EXCEPT !.shape = Reversed(a.shape)]
\* np.ones(shape, dtype)
Ones(shape, dtype) == NDArray(shape, dtype, [i \in 1..Product(shape) |-> 1])

(***************************************************************************)
(* Construction: AbstractContext.__init__, LocalExecutionContext.__init__  *)
(***************************************************************************)
\* a test that lets 'half' through
SupportedPrecisionLax(val) == val \in {"float", "double", "half"}

\* precision.setter's test: val in ('float', 'double')
SupportedPrecision(val) == val \in {"float", "double"}

\* precision.setter: what it raises and the value of _precision afterwards
\* (old is the value stored before; "" while __init__ has not stored one)
PrecisionSetter(old, val) ==
    IF ~SupportedPrecision(val)
    THEN [err |-> "ValueError", precision |-> old]
    ELSE [err |-> "", precision |-> val]

\* the device chosen by LocalExecutionContext.__init__
CPUDevice == [kind |-> "CPU", index |-> 0]
GPUDevice(i) == [kind |-> "GPU", index |-> i]
DeviceFor(device_id) == IF device_id = -1 THEN CPUDevice ELSE GPUDevice(device_id)

\* LocalExecutionContext(name, device_id, precision): the error raised, and the
\* object when there is none
NewContext(name, device_id, precision) ==
    LET set == PrecisionSetter("", precision)
    IN  [err |-> set.err,
         obj |-> [name |-> name, device_id |-> device_id,
                  precision |-> set.precision, device |-> DeviceFor(device_id)]]

\* the defaults of LocalExecutionContext.__init__, which get_context relies on
DefaultContext(name) == NewContext(name, -1, "float")

NoCall == [op |-> "none"]

CtxIds == 1..Len(ctxs)

\* user code: LocalExecutionContext(name, device_id, precision)
Construct(name, device_id, precision) ==
    /\ Len(ctxs) < MaxCtx
    /\ LET new == NewContext(name, device_id, precision)
       IN  IF new.err # ""
           THEN /\ ctxs' = ctxs
                /\ call' = [op |-> "construct", arg |-> precision, err |-> new.err,
                            ret |-> 0, count |-> Len(ctxs)]
           ELSE /\ ctxs' = Append(ctxs, new.obj)
                /\ call' = [op |-> "construct", arg |-> precision, err |-> "",
                            ret |-> Len(ctxs) + 1, count |-> Len(ctxs)]
    /\ UNCHANGED <<registry, lastGot>>

\* user code: ctx.precision = val
SetPrecision(c, val) ==
    /\ c \in CtxIds
    /\ LET set == PrecisionSetter(ctxs[c].precision, val)
       IN  /\ ctxs' = [ctxs EXCEPT ![c].precision = set.precision]
           /\ call' = [op |-> "set_precision", ctx |-> c, arg |-> val, err |-> set.err,
                       before |-> ctxs[c].precision]
    /\ UNCHANGED <<registry, lastGot>>

(***************************************************************************)
(* The registry: get_context, get_new_context, __enter__, __exit__         *)
(***************************************************************************)
NoneGot == [ctx |-> 0, replaced |-> FALSE]

\* handle = 'default' if handle is None
HandleOf(handle) == IF handle = NoHandle THEN "default" ELSE handle

\* a get_context that builds a context on every call
MustBuildAlways(h, reg) == TRUE

\* handle not in _CONTEXT
MustBuild(h, reg) == h \notin DOMAIN reg

\* the body of get_context(handle), called as `as`
GetContextBody(handle, as) ==
    LET h == HandleOf(handle)
        build == MustBuild(h, registry)
        id == Len(ctxs) + 1
    IN  /\ build => Len(ctxs) < MaxCtx
        /\ ctxs' = IF build THEN Append(ctxs, DefaultContext(h).obj) ELSE ctxs
        /\ registry' = IF build
                       THEN [k \in DOMAIN registry \cup {h} |->
                                IF k = h THEN id ELSE registry[k]]
                       ELSE registry
        /\ call' = [op |-> as, arg |-> handle, err |-> "", ret |-> registry'[h],
                    hit |-> h \in DOMAIN registry, prev |-> lastGot[h]]
        /\ lastGot' = [lastGot EXCEPT ![h] = [ctx |-> registry'[h], replaced |-> FALSE]]

GetContext(handle) == GetContextBody(handle, "get_context")

\* get_new_context(): draws until the handle drawn is not registered, then
\* get_context of that handle; new_handle is that last draw
GetNewContext(new_handle) ==
    /\ new_handle \notin DOMAIN registry
    /\ GetContextBody(new_handle, "get_new_context")

\* ctx.__enter__()
Enter(c) ==
    /\ c \in CtxIds
    /\ LET n == ctxs[c].name
       IN  /\ registry' = [k \in DOMAIN registry \cup {n} |-> IF k = n THEN c ELSE registry[k]]
           /\ lastGot' = [lastGot EXCEPT ![n].replaced =
                              @ \/ (lastGot[n].ctx # 0 /\ lastGot[n].ctx # c)]
           /\ call' = [op |-> "enter", ctx |-> c, err |-> "", ret |-> c]
    /\ UNCHANGED ctxs

\* an __exit__ that deregisters only when the body did not raise
ExitDeletesOnSuccess(raised) == ~raised

\* __exit__ runs del _CONTEXT[self.name] whatever exc_type is
ExitDeletes(raised) == TRUE

\* ctx.__exit__(exc_type, exc_value, exc_tb); raised: the body raised (exc_type is
\* not None).  The method returns None, which never suppresses the exception.
Exit(c, raised) ==
    /\ c \in CtxIds
    /\ LET n == ctxs[c].name
           del == ExitDeletes(raised)
       IN  /\ registry' = IF del THEN [k \in DOMAIN registry \ {n} |-> registry[k]]
                          ELSE registry
           /\ lastGot' = [lastGot EXCEPT ![n] = NoneGot]
           /\ call' = [op |-> "exit", ctx |-> c, raised |-> raised,
                       err |-> IF del /\ n \notin DOMAIN registry THEN "KeyError" ELSE "",
                       suppress |-> FALSE,
                       own |-> n \in DOMAIN registry /\ registry[n] = c]
    /\ UNCHANGED ctxs

(***************************************************************************)
(* The engine side of eval: the Functions, Forward, Backward and the       *)
(* helpers of cntk.utils                                                   *)
(***************************************************************************)
\* op.Outputs()
OpOutputs(op) == IF op = "constant" THEN {"c"} ELSE {"left", "right"}
\* the input variables op needs bound
OpInputs(op) == IF op = "constant" THEN {} ELSE {"x"}
\* the engine's shape of a variable
VarShape(v) ==
    CASE v = "c" -> <<2>>
      [] v = "left" -> <<3>>
      [] v = "right" -> <<1, 2>>
      [] v = "x" -> <<2, 3>>
      [] OTHER -> <<2>>

\* precision_numpy
PrecisionNumpy(precision) == IF precision = "float" THEN "float32" ELSE "float64"

\* an engine value: shape, dtype, flat data
Value(shape, dtype, data) == [shape |-> shape, dtype |-> dtype, data |-> data]
Filled(shape, dtype, x) == Value(shape, dtype, [i \in 1..Product(shape) |-> x])

\* the data type of a variable, fixed when the Function was built: it does not
\* follow the precision of the context that evaluates it
VarDType(v) == "float32"

\* create_ValuePtr_for_Variable(v): a buffer for v, of the shape and data type
\* of v, not written yet
ValuePtrForVariable(v) == Value(VarShape(v), VarDType(v), <<>>)
\* create_ValuePtr_from_NumPy(array, device)
ValuePtrFromNumPy(array, device) == [array |-> array, device |-> device]
\* value.Data().ToNumPy()
ToNumPy(value) == NDArray(value.shape, value.dtype, value.data)

\* sanitize_var_map(var_map, ctx): None gives the empty map, a map keeps its keys
SanitizeVarMap(d, dtype) ==
    IF d.isNone THEN EmptyDict
    ELSE [v \in Keys(d) |-> Value(VarShape(v), dtype, <<>>)]

\* an EvaluationState: the targets of the forward pass that made it and what
\* that pass retained; NoState: no state object
EvaluationState(targets, retain) == [made |-> TRUE, targets |-> targets, retain |-> retain]
NoState == [made |-> FALSE, targets |-> {}, retain |-> {}]

\* op.Forward(in_map, out_map, device, retain): fails when an input op needs is
\* not bound; otherwise writes every buffer of out_map (x: the number computed)
\* and returns a new state
Forward(op, in_map, out_map, device, retain, x) ==
    IF ~(OpInputs(op) \subseteq DOMAIN in_map)
    THEN [err |-> "MissingInput", out |-> out_map, state |-> NoState]
    ELSE [err |-> "",
          out |-> [v \in DOMAIN out_map |-> Filled(out_map[v].shape, out_map[v].dtype, x)],
          state |-> EvaluationState(DOMAIN out_map, retain)]

\* op.Backward(state, root_gradients, var_map): writes every buffer of var_map
Backward(var_map) ==
    [v \in DOMAIN var_map |-> Filled(var_map[v].shape, var_map[v].dtype, 1)]

(***************************************************************************)
(* LocalExecutionContext.eval                                              *)
(***************************************************************************)
\* the key test that raises ValueError; the key views of two dicts are equal
\* when they hold the same keys
KeysMismatch(input_map, gradient_map) ==
    /\ ~input_map.isNone
    /\ ~gradient_map.isNone
    /\ Keys(input_map) # Keys(gradient_map)

\* forward_out_var_map
ForwardOutVarMap(op) == [v \in OpOutputs(op) |-> ValuePtrForVariable(v)]

\* forward_retain
ForwardRetain(op) == OpOutputs(op)

\* a forward_output that is rebound inside the loop: the last output only
ForwardOutputLastOnly(op, out) ==
    LET v == CHOOSE w \in OpOutputs(op) : TRUE
    IN  [w \in {v} |-> ReshapeReversed(ToNumPy(out[w]))]

\* forward_output
ForwardOutput(op, out) == [v \in OpOutputs(op) |-> ReshapeReversed(ToNumPy(out[v]))]

\* a backward pass whenever gradient_map is not None
RunsBackwardNotNone(gradient_map) == ~gradient_map.isNone

\* `if gradient_map:`
RunsBackward(gradient_map) == Truthy(gradient_map)

\* root gradients shaped like the engine's buffers
RootGradientsEngineShape(forward_output, dtype, device) ==
    [v \in DOMAIN forward_output |->
        ValuePtrFromNumPy(Ones(Reversed(forward_output[v].shape), dtype), device)]

\* root_gradients
RootGradients(forward_output, dtype, device) ==
    [v \in DOMAIN forward_output |->
        ValuePtrFromNumPy(Ones(forward_output[v].shape, dtype), device)]

\* backward_output
BackwardOutput(var_map) == [v \in DOMAIN var_map |-> ReshapeReversed(ToNumPy(var_map[v]))]

\* the state handed to Backward
BackwardState(state) == state

NoResult == [tuple |-> FALSE, forward |-> EmptyDict, backward |-> EmptyDict]

\* ctx.eval(op, input_map, gradient_map); x: the number the engine computes
EvalCall(c, op, input_map, gradient_map, x) ==
    LET ctx == ctxs[c]
        dtype == PrecisionNumpy(ctx.precision)
        base == [op |-> "eval", ctx |-> c, f |-> op, input_map |-> input_map,
                 gradient_map |-> gradient_map, err |-> "", calls |-> <<>>,
                 ret |-> NoResult]
    IN  IF KeysMismatch(input_map, gradient_map)
        THEN [base EXCEPT !.err = "ValueError"]
        ELSE
        LET forward_in_var_map == SanitizeVarMap(input_map, dtype)
            forward_out_var_map == ForwardOutVarMap(op)
            forward_retain == ForwardRetain(op)
            fwd == Forward(op, forward_in_var_map, forward_out_var_map, ctx.device,
                           forward_retain, x)
            fcall == [fn |-> "Forward", inputs |-> DOMAIN forward_in_var_map,
                      outputs |-> DOMAIN forward_out_var_map, device |-> ctx.device,
                      retain |-> forward_retain, err |-> fwd.err, state |-> fwd.state]
        IN  IF fwd.err # ""
            THEN [base EXCEPT !.err = fwd.err, !.calls = <<fcall>>]
            ELSE
            LET forward_output == ForwardOutput(op, fwd.out)
            IN  IF RunsBackward(gradient_map)
                THEN
                LET root_gradients == RootGradients(forward_output, dtype, ctx.device)
                    backward_var_map == SanitizeVarMap(gradient_map, dtype)
                    bcall == [fn |-> "Backward", state |-> BackwardState(fwd.state),
                              root_gradients |-> root_gradients,
                              var_map |-> DOMAIN backward_var_map, err |-> ""]
                    backward_output == BackwardOutput(Backward(backward_var_map))
                IN  [base EXCEPT !.calls = <<fcall, bcall>>,
                                 !.ret = [tuple |-> TRUE, forward |-> forward_output,
                                          backward |-> backward_output]]
                ELSE [base EXCEPT !.calls = <<fcall>>,
                                  !.ret = [tuple |-> FALSE, forward |-> forward_output,
                                           backward |-> EmptyDict]]

Eval(c, op, input_map, gradient_map, x) ==
    /\ c \in CtxIds
    /\ call' = EvalCall(c, op, input_map, gradient_map, x)
    /\ UNCHANGED <<ctxs, registry, lastGot>>

(***************************************************************************)
(* The program                                                             *)
(***************************************************************************)
\* what a caller may pass as input_map or gradient_map: None or a map over
\* some of the variables V
MapsOver(V) == {None} \cup {Dict([v \in K |-> 0]) : K \in SUBSET V}
EngineNumbers == {0, 3}

Init ==
    /\ ctxs = <<>>
    /\ registry = EmptyDict
    /\ lastGot = [h \in AllHandles |-> NoneGot]
    /\ call = NoCall

\* Contexts, registry and scopes
Next ==
    \/ \E n \in Handles, d \in DeviceIds, p \in Precisions : Construct(n, d, p)
    \/ \E c \in CtxIds, p \in Precisions : SetPrecision(c, p)
    \/ \E h \in Handles \cup {NoHandle} : GetContext(h)
    \/ \E h \in RandomHandles : GetNewContext(h)
    \/ \E c \in CtxIds : Enter(c)
    \/ \E c \in CtxIds, raised \in BOOLEAN : Exit(c, raised)

Spec == Init /\ [][Next]_vars

\* Everything that is done to a context once it is built: one context built by
\* the caller with any name, device and precision, then precision assignments,
\* registry lookups (which build further contexts), scopes, and eval with x
\* bound and any gradient map over x
InitCtx ==
    /\ \E n \in Handles, d \in DeviceIds, p \in {"float", "double"} :
          ctxs = <<NewContext(n, d, p).obj>>
    /\ registry = EmptyDict
    /\ lastGot = [h \in AllHandles |-> NoneGot]
    /\ call = NoCall

NextCtx ==
    \/ \E c \in CtxIds, p \in Precisions : SetPrecision(c, p)
    \/ \E h \in Handles \cup {NoHandle} : GetContext(h)
    \/ \E c \in CtxIds : Enter(c)
    \/ \E c \in CtxIds, raised \in BOOLEAN : Exit(c, raised)
    \/ \E c \in CtxIds, op \in Ops, gm \in MapsOver({"x"}) :
           Eval(c, op, Dict([v \in {"x"} |-> 0]), gm, 3)

SpecCtx == InitCtx /\ [][NextCtx]_vars

\* eval on every pair of maps, on one context built with any device and precision
InitEval ==
    /\ \E d \in DeviceIds, p \in {"float", "double"} : ctxs = <<NewContext("a", d, p).obj>>
    /\ registry = EmptyDict
    /\ lastGot = [h \in AllHandles |-> NoneGot]
    /\ call = NoCall

NextEval ==
    \/ \E p \in Precisions : SetPrecision(1, p)
    \/ \E op \in Ops, im \in MapsOver(InVars), gm \in MapsOver(InVars), x \in EngineNumbers :
           Eval(1, op, im, gm, x)

SpecEval == InitEval /\ [][NextEval]_vars

(***************************************************************************)
(* Properties                                                              *)
(***************************************************************************)
IsEval == call.op = "eval"
\* the positions of the calls of fn in the latest eval
CallsOf(fn) == {i \in 1..Len(call.calls) : call.calls[i].fn = fn}

\* C1: eval raises ValueError, before any Forward or Backward call, whenever a
\* gradient map is supplied whose key set differs from the key set of the input
\* map, an omitted input map counting as having no keys.
C1_DisjointKeysFailFast ==
    (IsEval /\ ~call.gradient_map.isNone
            /\ Keys(call.gradient_map) # Keys(call.input_map))
        => (call.err = "ValueError" /\ call.calls = <<>>)

\* C2: no step changes the device binding or the precision of any context that
\* exists: after every sequence of registry lookups, enters, exits, evals and
\* assignments through the precision property both are what the construction
\* bound.
C2_NeverChange ==
    [][\A c \in CtxIds :
          /\ ctxs'[c].device_id = ctxs[c].device_id
          /\ ctxs'[c].device = ctxs[c].device
          /\ ctxs'[c].precision = ctxs[c].precision]_vars

\* C3 as claimed: every eval call makes exactly one Forward call; a Backward
\* call is made at most once, only for a non-empty gradient map and only after
\* the Forward call returned; with a gradient map that is None or empty no
\* Backward call is made and the forward outputs alone are returned.
C3_ForwardExactlyOnce ==
    IsEval =>
        /\ Cardinality(CallsOf("Forward")) = 1
        /\ Cardinality(CallsOf("Backward")) <= 1
        /\ \A j \in CallsOf("Backward") :
              /\ Truthy(call.gradient_map)
              /\ \E i \in CallsOf("Forward") : i < j /\ call.calls[i].err = ""
        /\ ~Truthy(call.gradient_map) =>
              /\ CallsOf("Backward") = {}
              /\ call.err = ""
              /\ ~call.ret.tuple
              /\ call.ret.backward = EmptyDict
              /\ DOMAIN call.ret.forward = OpOutputs(call.f)

\* C3, amended: an eval call given an input map and a gradient map, neither
\* None, whose key sets differ raises ValueError and calls neither Forward nor
\* Backward; every other eval call calls Forward exactly once, before anything
\* else.  A Backward call is made at most once, only for a non-empty gradient
\* map and only after the Forward call returned.  With a gradient map that is
\* None or empty no Backward call is made, and an eval that returns then
\* returns the forward outputs alone; an eval that returns with a non-empty
\* gradient map has made exactly one Backward call and returns the pair.
C3_ForwardOnceUnlessRejected ==
    IsEval =>
        LET rejected == /\ ~call.input_map.isNone
                        /\ ~call.gradient_map.isNone
                        /\ Keys(call.input_map) # Keys(call.gradient_map)
        IN  /\ rejected => (call.err = "ValueError" /\ call.calls = <<>>)
            /\ ~rejected =>
                  /\ call.err # "ValueError"
                  /\ Cardinality(CallsOf("Forward")) = 1
                  /\ call.calls[1].fn = "Forward"
            /\ Cardinality(CallsOf("Backward")) <= 1
            /\ \A j \in CallsOf("Backward") :
                  /\ Truthy(call.gradient_map)
                  /\ \E i \in CallsOf("Forward") : i < j /\ call.calls[i].err = ""
            /\ ~Truthy(call.gradient_map) => CallsOf("Backward") = {}
            /\ (call.err = "" /\ ~Truthy(call.gradient_map)) =>
                  /\ ~call.ret.tuple
                  /\ call.ret.backward = EmptyDict
                  /\ DOMAIN call.ret.forward = OpOutputs(call.f)
            /\ (call.err = "" /\ Truthy(call.gradient_map)) =>
                  /\ Cardinality(CallsOf("Backward")) = 1
                  /\ call.ret.tuple

\* an eval that ran Forward and then Backward
C3_Witness ==
    /\ IsEval
    /\ call.err = ""
    /\ Len(call.calls) = 2
    /\ call.calls[1].fn = "Forward"
    /\ call.calls[2].fn = "Backward"

\* C4: an eval that returns with a gradient map that is not None, the empty map
\* included, has run a backward pass and returns the pair; the bare forward
\* result is returned only for gradient_map None.
C4_BackwardWheneverNotNone ==
    (IsEval /\ call.err = "") =>
        /\ ~call.gradient_map.isNone => (call.ret.tuple /\ CallsOf("Backward") # {})
        /\ ~call.ret.tuple => call.gradient_map.isNone

\* C5 as claimed: a get_context call returns the object the former get_context
\* call of that handle returned, unless an __exit__ of that name came between.
C5_SameObjectUntilExit ==
    (call.op = "get_context" /\ call.prev.ctx # 0) => call.ret = call.prev.ctx

\* C5, amended: get_context(handle), None standing for 'default', returns the
\* registered context and changes neither the registry nor any context when
\* the handle is registered; otherwise it builds exactly one context, named by
\* the handle, registers it under the handle, returns it and leaves every
\* other entry alone.  Two get_context calls of one handle return the same
\* object when neither an __exit__ of that name nor an __enter__ of another
\* context of that name came between.
C5_LookupOrCreate ==
    [][call'.op = "get_context" =>
          LET h == HandleOf(call'.arg)
          IN  /\ h \in DOMAIN registry =>
                    /\ registry' = registry
                    /\ ctxs' = ctxs
                    /\ call'.ret = registry[h]
              /\ h \notin DOMAIN registry =>
                    /\ Len(ctxs') = Len(ctxs) + 1
                    /\ \A c \in CtxIds : ctxs'[c] = ctxs[c]
                    /\ ctxs'[Len(ctxs')].name = h
                    /\ DOMAIN registry' = DOMAIN registry \cup {h}
                    /\ registry'[h] = Len(ctxs')
                    /\ call'.ret = Len(ctxs')
                    /\ \A k \in DOMAIN registry : registry'[k] = registry[k]
              /\ (lastGot[h].ctx # 0 /\ ~lastGot[h].replaced) =>
                    call'.ret = lastGot[h].ctx]_vars

\* a second get_context of a handle returning the object of the first
C5_Witness ==
    /\ call.op = "get_context"
    /\ call.hit
    /\ call.prev.ctx # 0
    /\ ~call.prev.replaced
    /\ call.ret = call.prev.ctx

\* C6: after the __exit__ of a context named n, whether the body raised or not,
\* _CONTEXT has no entry under n, whatever was registered under n before and
\* whatever was looked up inside the scope; __exit__ does not suppress the
\* exception of the body.
C6_ExitDeregisters ==
    call.op = "exit" =>
        /\ ctxs[call.ctx].name \notin DOMAIN registry
        /\ ~call.suppress

\* the __exit__, after a body that raised, of a context built by the caller
\* (device_id 0; get_context builds CPU contexts) that __enter__ had registered
C6_Witness ==
    /\ call.op = "exit"
    /\ call.raised
    /\ call.own
    /\ call.err = ""
    /\ ctxs[call.ctx].device_id = 0
    /\ ctxs[call.ctx].name \notin DOMAIN registry

\* C7: a construction with a precision other than 'float' or 'double' raises
\* ValueError and adds no context; an assignment of such a precision raises
\* ValueError and leaves the stored precision as it was; so no context ever
\* holds another precision.
C7_InvalidPrecisionRejected ==
    /\ (call.op = "construct" /\ call.arg \notin {"float", "double"}) =>
          (call.err = "ValueError" /\ call.ret = 0 /\ Len(ctxs) = call.count)
    /\ (call.op = "set_precision" /\ call.arg \notin {"float", "double"}) =>
          (call.err = "ValueError" /\ ctxs[call.ctx].precision = call.before)
    /\ \A c \in CtxIds : ctxs[c].precision \in {"float", "double"}

\* an assignment of 'half' to a context, rejected
C7_Witness ==
    /\ call.op = "set_precision"
    /\ call.arg = "half"
    /\ call.err = "ValueError"
    /\ ctxs[call.ctx].precision = call.before

\* C8: the forward result of an eval that returns has an entry for exactly the
\* outputs of op, and the backward result an entry for exactly the keys of the
\* gradient map.
C8_ResultsAsRequested ==
    (IsEval /\ call.err = "") =>
        /\ DOMAIN call.ret.forward = OpOutputs(call.f)
        /\ call.ret.tuple => DOMAIN call.ret.backward = Keys(call.gradient_map)

\* an eval of the op with two outputs that returned a gradient for x alone
C8_Witness ==
    /\ IsEval
    /\ call.err = ""
    /\ call.f = "split"
    /\ call.ret.tuple
    /\ DOMAIN call.ret.backward = {"x"}
    /\ Keys(call.input_map) = {"x"}

\* C9: a Backward call of eval is handed the state the Forward call of the same
\* eval returned, and no other Backward call is handed it; its root gradients
\* have exactly the targets of that Forward call, the outputs of op, as keys,
\* and each is an array of ones with the shape of the forward output returned
\* for that variable.
C9_BackwardPrecondition ==
    IsEval =>
        \A j \in CallsOf("Backward") :
            LET b == call.calls[j]
                f == call.calls[1]
            IN  /\ j = 2
                /\ f.fn = "Forward"
                /\ f.err = ""
                /\ b.state.made
                /\ b.state = f.state
                /\ CallsOf("Backward") = {j}
                /\ f.outputs = OpOutputs(call.f)
                /\ b.state.targets = f.outputs
                /\ DOMAIN b.root_gradients = f.outputs
                /\ \A v \in DOMAIN b.root_gradients :
                      LET g == b.root_gradients[v].array
                      IN  /\ g.shape = call.ret.forward[v].shape
                          /\ Len(g.data) = Product(g.shape)
                          /\ \A i \in 1..Len(g.data) : g.data[i] = 1

\* a Backward call for the op whose output "right" has a shape that its
\* reversal changes
C9_Witness ==
    /\ IsEval
    /\ call.f = "split"
    /\ CallsOf("Backward") # {}
    /\ call.ret.forward["right"].shape # VarShape("right")

\* C10: the retain set handed to Forward holds what the Backward call of the
\* same eval needs and nothing else: when no Backward call follows (gradient
\* map None or empty) Forward is asked to retain nothing.
C10_RetainOnlyForBackward ==
    IsEval =>
        \A i \in CallsOf("Forward") :
            ~Truthy(call.gradient_map) => call.calls[i].retain = {}

====
